---- MODULE Spec2Model ----
(***************************************************************************)
(* Model of src/c/dvd.c: a watchface that bounces the time text around     *)
(* the screen, slows it down after IDLE_START_SEC seconds without a        *)
(* wake-up event and stops it after TRANSITION_FRAMES further frames.      *)
(*                                                                         *)
(* The program state is the file's static variables.  The environment is   *)
(* the platform: the wall clock, the app timer service (one-shot timers),  *)
(* the root layer's bounds and the text layout service.                    *)
(***************************************************************************)
EXTENDS Integers, FiniteSets, Sequences, TLC

VARIABLES
  s_x, s_y,             \* dvd.c:6   top-left corner of the text layer
  s_dx, s_dy,           \* dvd.c:7   velocity in pixels per frame
  s_text_bounds,        \* dvd.c:5   size of the rendered text, [w, h]
  s_animation_timer,    \* dvd.c:8   handle of the timer last registered, NULL = 0
  s_activation_time,    \* dvd.c:9   time(NULL) of the last activation, in seconds
  s_transition_frame,   \* dvd.c:10
  s_in_transition,      \* dvd.c:11
  pc,                   \* position of main(): "init", then "loop" (app_event_loop)
  bounds,               \* layer_get_bounds(window root layer), [w, h], fixed
  clock,                \* real time since start, in units of ANIMATION_INTERVAL_MS
  timers,               \* app timer service: the pending timers, records [id, due]
  last                  \* history: the handler that ran last and what it observed

vars == <<s_x, s_y, s_dx, s_dy, s_text_bounds, s_animation_timer,
          s_activation_time, s_transition_frame, s_in_transition,
          pc, bounds, clock, timers, last>>

(***************************************************************************)
(* Program constants (dvd.c:13-16).                                        *)
(***************************************************************************)
ANIMATION_INTERVAL_MS == 50
IDLE_START_SEC == 5
TRANSITION_DURATION_SEC == 2
TRANSITION_FRAMES == (TRANSITION_DURATION_SEC * 1000) \div ANIMATION_INTERVAL_MS
InitialSpeed == 2
NULL == 0

(***************************************************************************)
(* Bounds of the model.                                                    *)
(***************************************************************************)
ViewW == 6       \* width of the root layer
ViewH == 6       \* height of the root layer
MaxClock == 143  \* the clock stops advancing here (in timer intervals)

\* Sizes the text layout service may return for a time string: two that fit
\* and one that is too wide and too high.
TextSizes ==
  { [w |-> 3, h |-> 2], [w |-> 4, h |-> 3], [w |-> ViewW + 1, h |-> ViewH + 2] }

\* The sizes among them that fit the viewport.
FittingSizes == { tb \in TextSizes : tb.w <= ViewW /\ tb.h <= ViewH }

(***************************************************************************)
(* C integer division and the clock.                                       *)
(***************************************************************************)
Abs(i) == IF i < 0 THEN -i ELSE i

\* C's / on ints truncates toward zero.
CDiv(a, b) ==
  IF (a >= 0) = (b > 0) THEN Abs(a) \div Abs(b) ELSE -(Abs(a) \div Abs(b))

\* time(NULL): whole seconds of the wall clock.
TimeNow(c) == (c * ANIMATION_INTERVAL_MS) \div 1000

(***************************************************************************)
(* IEEE-754 binary32 arithmetic, as far as animation_timer_callback uses   *)
(* it.  A float is [s, m, e] with value s * m * 2^e, where s is 1 or -1    *)
(* and m is 0 or has exactly 24 bits.  Every operation rounds to nearest,  *)
(* ties to even.                                                           *)
(***************************************************************************)
RECURSIVE Pow2(_)
Pow2(n) == IF n = 0 THEN 1 ELSE 2 * Pow2(n - 1)

Two12 == Pow2(12)
Two23 == Pow2(23)
Two24 == Pow2(24)

F32Zero == [s |-> 1, m |-> 0, e |-> 0]

\* Round q (+ a remainder rem out of unit) to nearest, ties to even, and
\* renormalise when the mantissa overflows 24 bits.
F32Pack(sign, q, rem, unit, e) ==
  LET up == (2 * rem > unit) \/ (2 * rem = unit /\ q % 2 = 1)
      m  == IF up THEN q + 1 ELSE q
  IN  IF m = Two24 THEN [s |-> sign, m |-> Two23, e |-> e + 1]
      ELSE [s |-> sign, m |-> m, e |-> e]

\* The float nearest to n / d (n >= 0, d > 0, n / d < 2^24).
RECURSIVE F32Norm(_, _, _)
F32Norm(n, d, k) ==
  IF n \div d >= Two23 THEN <<n, k>> ELSE F32Norm(2 * n, d, k + 1)

F32Ratio(n, d) ==
  IF n = 0 THEN F32Zero
  ELSE LET nk == F32Norm(n, d, 0)
       IN  F32Pack(1, nk[1] \div d, nk[1] % d, d, -nk[2])

\* (float)i
F32FromInt(i) ==
  LET f == F32Ratio(Abs(i), 1) IN [f EXCEPT !.s = IF i < 0 THEN -1 ELSE 1]

\* The float nearest to the integer n * 2^e (0 <= n < 2^31).
RECURSIVE F32Shift(_, _)
F32Shift(n, e) ==
  IF n = 0 THEN F32Zero
  ELSE IF n < Two23 THEN F32Shift(2 * n, e - 1)
  ELSE IF n < Two24 THEN [s |-> 1, m |-> n, e |-> e]
  ELSE LET sh == CHOOSE k \in 1..7 : n \div Pow2(k) < Two24
                                     /\ n \div Pow2(k) >= Two23
       IN  F32Pack(1, n \div Pow2(sh), n % Pow2(sh), Pow2(sh), e + sh)

\* a - b for floats a >= b >= 0 whose exponents differ by at most 7.
F32Sub(a, b) ==
  IF b.m = 0 THEN a
  ELSE LET lo == IF a.e < b.e THEN a.e ELSE b.e
           A  == a.m * Pow2(a.e - lo)
           B  == b.m * Pow2(b.e - lo)
       IN  F32Shift(A - B, lo)

\* a * b: the 48-bit product of the mantissas from 12-bit limbs.
F32Mul(a, b) ==
  IF a.m = 0 \/ b.m = 0 THEN F32Zero
  ELSE LET L    == Two12
           a1   == a.m \div L
           a0   == a.m % L
           b1   == b.m \div L
           b0   == b.m % L
           mid  == a1 * b0 + a0 * b1
           low  == (mid % L) * L + a0 * b0
           hi   == a1 * b1 + mid \div L + low \div Two24
           lo   == low % Two24
           sign == a.s * b.s
       IN  IF hi >= Two23
           THEN F32Pack(sign, hi, lo, Two24, a.e + b.e + 24)
           ELSE F32Pack(sign, 2 * hi + lo \div Two23, lo % Two23,
                        Two23, a.e + b.e + 23)

\* a > b for floats a, b >= 0.
F32Gt(a, b) ==
  IF a.m = 0 THEN FALSE
  ELSE IF b.m = 0 THEN TRUE
  ELSE a.e > b.e \/ (a.e = b.e /\ a.m > b.m)

\* (int)a: truncation toward zero (|a| < 2^24).
\* Mutant: the conversion rounds to the nearest integer.
F32ToInt_Round(a) ==
  IF a.m = 0 THEN 0
  ELSE IF a.e >= 0 THEN a.s * a.m * Pow2(a.e)
  ELSE IF -a.e >= 25 THEN 0
  ELSE a.s * ((a.m + Pow2(-a.e - 1)) \div Pow2(-a.e))

F32ToInt(a) ==
  IF a.m = 0 THEN 0
  ELSE IF a.e >= 0 THEN a.s * a.m * Pow2(a.e)
  ELSE IF -a.e >= 24 THEN 0
  ELSE a.s * (a.m \div Pow2(-a.e))

F32One == F32FromInt(1)

\* The literal 0.01f.
F32Threshold == F32Ratio(1, 100)

\* dvd.c:58  float progress = (float)s_transition_frame / TRANSITION_FRAMES
Progress(frame) == F32Ratio(frame, TRANSITION_FRAMES)

\* dvd.c:60  (1.0f - progress) * (1.0f - progress), for every frame of the
\* transition
SpeedMultipliers ==
  [ frame \in 0..(TRANSITION_FRAMES - 1) |->
      LET r == F32Sub(F32One, Progress(frame)) IN F32Mul(r, r) ]

SpeedMultiplier(frame) == SpeedMultipliers[frame]

\* dvd.c:63  speed_multiplier > 0.01f, the frames for which it holds
SignificantFrames ==
  { frame \in 0..(TRANSITION_FRAMES - 1) :
      F32Gt(SpeedMultiplier(frame), F32Threshold) }

SpeedSignificant(frame) == frame \in SignificantFrames

\* dvd.c:67-68  (int)(s_dx * speed_multiplier), for every velocity component
\* up to the initial speed and every frame of the transition
ScaledSteps ==
  [ d \in (-InitialSpeed)..InitialSpeed |->
      [ frame \in 0..(TRANSITION_FRAMES - 1) |->
          F32ToInt(F32Mul(F32FromInt(d), SpeedMultiplier(frame))) ] ]

Scaled(d, frame) == ScaledSteps[d][frame]

(***************************************************************************)
(* The app timer service.                                                  *)
(***************************************************************************)
TimerIds(ts) == { t.id : t \in ts }

\* A handle that names no pending timer.
FreshId(ts) ==
  CHOOSE i \in 1..(Cardinality(ts) + 1) :
    /\ i \notin TimerIds(ts)
    /\ \A j \in 1..(i - 1) : j \in TimerIds(ts)

\* app_timer_register(ANIMATION_INTERVAL_MS, animation_timer_callback, NULL):
\* the callback is due one interval from now.
Register(ts, clk) == [id |-> FreshId(ts), due |-> clk + 1]

\* Mutant: the cancellation is lost.
Cancel_Nothing(ts, handle) == ts

\* app_timer_cancel(handle)
Cancel(ts, handle) == { t \in ts : t.id # handle }

(***************************************************************************)
(* update_position (dvd.c:18-40), one axis: advance the coordinate c by    *)
(* the velocity d, then bounce off the edges of a viewport of extent V     *)
(* for an object of extent e.                                              *)
(***************************************************************************)
\* Mutant: the velocity flips at an edge but the coordinate is not clamped.
BounceAxis_NoClamp(c, d, e, V) ==
  LET c1  == c + d
      hit == c1 <= 0 \/ c1 + e >= V
  IN  [c |-> c1, d |-> IF hit THEN -d ELSE d, hit |-> hit]

\* Mutant: the left/top edge is tested with < instead of <=.
BounceAxis_StrictEdge(c, d, e, V) ==
  LET c1  == c + d
      hit == c1 < 0 \/ c1 + e >= V
  IN  [ c   |-> IF hit THEN (IF c1 < 0 THEN 0 ELSE V - e) ELSE c1,
        d   |-> IF hit THEN -d ELSE d,
        hit |-> hit ]

BounceAxis(c, d, e, V) ==
  LET c1  == c + d
      hit == c1 <= 0 \/ c1 + e >= V
  IN  [ c   |-> IF hit THEN (IF c1 <= 0 THEN 0 ELSE V - e) ELSE c1,
        d   |-> IF hit THEN -d ELSE d,
        hit |-> hit ]

UpdatePosition(x, y, dx, dy, tb, b) ==
  LET ax == BounceAxis(x, dx, tb.w, b.w)
      ay == BounceAxis(y, dy, tb.h, b.h)
  IN  [x |-> ax.c, y |-> ay.c, dx |-> ax.d, dy |-> ay.d,
       sdx |-> dx, sdy |-> dy, moved |-> TRUE]

\* The position and velocity left as they are.
NoMove(x, y, dx, dy) ==
  [x |-> x, y |-> y, dx |-> dx, dy |-> dy,
   sdx |-> 0, sdy |-> 0, moved |-> FALSE]

(***************************************************************************)
(* animation_timer_callback (dvd.c:42-93).                                 *)
(***************************************************************************)
\* Mutant: the idle check uses > instead of >=.
\* Mutant: the transition starts a second early.
EntersTransition_Early(inTransition, elapsed) ==
  ~inTransition /\ elapsed >= IDLE_START_SEC - 1

EntersTransition_Late(inTransition, elapsed) ==
  ~inTransition /\ elapsed > IDLE_START_SEC

\* dvd.c:46  the idle check
EntersTransition(inTransition, elapsed) ==
  ~inTransition /\ elapsed >= IDLE_START_SEC

\* Mutant: the velocity is not restored, the scaled one stays.
Restore_KeepScaled(original, scaled, after) == after

\* Mutant: the velocity is restored as it was, a bounce is forgotten.
Restore_Forget(original, scaled, after) == original

\* dvd.c:79-83  restore one axis' velocity, keeping a reversal of the bounce
Restore(original, scaled, after) ==
  IF scaled * after < 0 THEN -original ELSE original

\* dvd.c:63-84  one frame of the transition
TransitionStep(x, y, dx, dy, frame, tb, b) ==
  IF SpeedSignificant(frame)
  THEN LET scaled_dx == Scaled(dx, frame)
           scaled_dy == Scaled(dy, frame)
           u == IF scaled_dx # 0 \/ scaled_dy # 0
                THEN UpdatePosition(x, y, scaled_dx, scaled_dy, tb, b)
                ELSE NoMove(x, y, scaled_dx, scaled_dy)
       IN  [u EXCEPT !.dx = Restore(dx, scaled_dx, u.dx),
                     !.dy = Restore(dy, scaled_dy, u.dy)]
  ELSE NoMove(x, y, dx, dy)

\* Mutant: the transition ends one frame early.
Branch_EarlyStop(inTransition, frame) ==
  IF ~inTransition THEN "active"
  ELSE IF frame < TRANSITION_FRAMES - 1 THEN "transition"
  ELSE "stop"

\* dvd.c:52-92  the branch the callback takes after the idle check
Branch(inTransition, frame) ==
  IF ~inTransition THEN "active"
  ELSE IF frame < TRANSITION_FRAMES THEN "transition"
  ELSE "stop"

\* Mutant: the last branch registers a callback too.
Rearms_Always(branch) == TRUE

\* Mutant: only the active branch registers the next callback.
Rearms_ActiveOnly(branch) == branch = "active"

\* dvd.c:55, 87, 90  every branch but the last registers the next callback
Rearms(branch) == branch # "stop"

\* Mutant: the frame counter is never incremented.
NextFrame_Stuck(branch, frame) == frame

\* dvd.c:86  only a frame of the transition counts up
NextFrame(branch, frame) == IF branch = "transition" THEN frame + 1 ELSE frame

(***************************************************************************)
(* History: the handler that ran last and the state it started from; for   *)
(* the timer callback also the branch it took, the frame it worked on and  *)
(* the step it applied to the position (dx, dy are the velocity before);   *)
(* for activate_animation whether the handler before it was one too.       *)
(***************************************************************************)
LastNone ==
  [ op |-> "none", branch |-> "none",
    x |-> 0, y |-> 0, dx |-> 0, dy |-> 0,
    timer |-> NULL, pending |-> {},
    inTransition |-> FALSE, frame |-> 0,
    sdx |-> 0, sdy |-> 0, moved |-> FALSE, again |-> FALSE ]

Before(op) ==
  [LastNone EXCEPT !.op = op, !.x = s_x, !.y = s_y, !.dx = s_dx, !.dy = s_dy,
                   !.timer = s_animation_timer, !.pending = TimerIds(timers)]

(***************************************************************************)
(* The initial state: the statics as the file initialises them, before     *)
(* init() pushes the window.                                               *)
(***************************************************************************)
Init ==
  /\ s_x = 0 /\ s_y = 0
  /\ s_dx = InitialSpeed /\ s_dy = InitialSpeed
  /\ s_text_bounds = [w |-> 0, h |-> 0]
  /\ s_animation_timer = NULL
  /\ s_activation_time = 0
  /\ s_transition_frame = 0
  /\ s_in_transition = FALSE
  /\ pc = "init"
  /\ bounds = [w |-> ViewW, h |-> ViewH]
  /\ clock = 0
  /\ timers = {}
  /\ last = LastNone

\* window_load (dvd.c:145-172), called by window_stack_push in init(); the
\* text layout service measures the text as one of Sizes.
window_load_in(Sizes) ==
  /\ pc = "init"
  /\ \E tb \in Sizes :
       /\ s_text_bounds' = tb
       /\ s_x' = CDiv(bounds.w - tb.w, 2)
       /\ s_y' = CDiv(bounds.h - tb.h, 2)
  /\ s_activation_time' = TimeNow(clock)
  /\ s_in_transition' = FALSE
  /\ s_transition_frame' = 0
  /\ LET t == Register(timers, clock)
     IN  /\ timers' = timers \cup {t}
         /\ s_animation_timer' = t.id
  /\ pc' = "loop"
  /\ last' = Before("window_load")
  /\ UNCHANGED <<s_dx, s_dy, bounds, clock>>

window_load == window_load_in(TextSizes)

\* animation_timer_callback (dvd.c:42-93), run when a pending timer fires.
animation_timer_callback ==
  /\ pc = "loop"
  /\ \E t \in timers :
       /\ t.due <= clock
       /\ LET elapsed == TimeNow(clock) - s_activation_time
              entered == EntersTransition(s_in_transition, elapsed)
              inT     == s_in_transition \/ entered
              frame   == IF entered THEN 0 ELSE s_transition_frame
              branch  == Branch(inT, frame)
              u == CASE branch = "active" ->
                          UpdatePosition(s_x, s_y, s_dx, s_dy, s_text_bounds, bounds)
                     [] branch = "transition" ->
                          TransitionStep(s_x, s_y, s_dx, s_dy, frame, s_text_bounds, bounds)
                     [] OTHER -> NoMove(s_x, s_y, s_dx, s_dy)
              fired == timers \ {t}
              new   == Register(fired, clock)
          IN  /\ s_x' = u.x /\ s_y' = u.y /\ s_dx' = u.dx /\ s_dy' = u.dy
              /\ s_in_transition' = (branch = "transition")
              /\ s_transition_frame' = NextFrame(branch, frame)
              /\ IF Rearms(branch)
                 THEN timers' = fired \cup {new} /\ s_animation_timer' = new.id
                 ELSE timers' = fired /\ s_animation_timer' = NULL
              /\ last' = [Before("tick") EXCEPT
                            !.branch = branch,
                            !.inTransition = s_in_transition,
                            !.frame = frame,
                            !.sdx = u.sdx, !.sdy = u.sdy, !.moved = u.moved]
  /\ UNCHANGED <<s_text_bounds, s_activation_time, pc, bounds, clock>>

\* Mutant: the frame counter is not reset.
activate_animation_KeepFrame(op) ==
  /\ s_activation_time' = TimeNow(clock)
  /\ s_in_transition' = FALSE
  /\ LET kept == IF s_animation_timer # NULL
                 THEN Cancel(timers, s_animation_timer) ELSE timers
         t    == Register(kept, clock)
     IN  /\ timers' = kept \cup {t}
         /\ s_animation_timer' = t.id
  /\ last' = [Before(op) EXCEPT !.again = (last.op \in {"tap", "focus"})]
  /\ UNCHANGED <<s_x, s_y, s_dx, s_dy, s_text_bounds, pc, bounds, clock,
                 s_transition_frame>>

\* Mutant: the transition flag is not reset.
activate_animation_KeepTransition(op) ==
  /\ s_activation_time' = TimeNow(clock)
  /\ s_transition_frame' = 0
  /\ LET kept == IF s_animation_timer # NULL
                 THEN Cancel(timers, s_animation_timer) ELSE timers
         t    == Register(kept, clock)
     IN  /\ timers' = kept \cup {t}
         /\ s_animation_timer' = t.id
  /\ last' = [Before(op) EXCEPT !.again = (last.op \in {"tap", "focus"})]
  /\ UNCHANGED <<s_x, s_y, s_dx, s_dy, s_text_bounds, pc, bounds, clock,
                 s_in_transition>>

\* activate_animation (dvd.c:120-133)
activate_animation(op) ==
  /\ s_activation_time' = TimeNow(clock)
  /\ s_in_transition' = FALSE
  /\ s_transition_frame' = 0
  /\ LET kept == IF s_animation_timer # NULL
                 THEN Cancel(timers, s_animation_timer) ELSE timers
         t    == Register(kept, clock)
     IN  /\ timers' = kept \cup {t}
         /\ s_animation_timer' = t.id
  /\ last' = [Before(op) EXCEPT !.again = (last.op \in {"tap", "focus"})]
  /\ UNCHANGED <<s_x, s_y, s_dx, s_dy, s_text_bounds, pc, bounds, clock>>

\* Mutant: the handler does not look at in_focus.
focus_handler_Always ==
  /\ pc = "loop"
  /\ \E in_focus \in BOOLEAN :
       activate_animation(IF in_focus THEN "focus" ELSE "focus_lost")

\* focus_handler (dvd.c:135-139)
focus_handler ==
  /\ pc = "loop"
  /\ \E in_focus \in BOOLEAN :
       IF in_focus
       THEN activate_animation("focus")
       ELSE /\ last' = Before("focus_lost")
            /\ UNCHANGED <<s_x, s_y, s_dx, s_dy, s_text_bounds, s_animation_timer,
                           s_activation_time, s_transition_frame, s_in_transition,
                           pc, bounds, clock, timers>>

\* tap_handler (dvd.c:141-143)
tap_handler ==
  /\ pc = "loop"
  /\ activate_animation("tap")

\* Mutant: the text is centred again when it is measured.
tick_handler_Recentre(Sizes) ==
  /\ pc = "loop"
  /\ \E tb \in Sizes :
       /\ s_text_bounds' = tb
       /\ s_x' = CDiv(bounds.w - tb.w, 2)
       /\ s_y' = CDiv(bounds.h - tb.h, 2)
  /\ last' = Before("tick_handler")
  /\ UNCHANGED <<s_dx, s_dy, s_animation_timer, s_activation_time,
                 s_transition_frame, s_in_transition, pc, bounds, clock, timers>>

\* tick_handler (dvd.c:116-118) -> update_time -> compute_text_bounds
\* (dvd.c:95-114): the minute changed, the text is measured again, as one of
\* Sizes.
tick_handler_in(Sizes) ==
  /\ pc = "loop"
  /\ \E tb \in Sizes : s_text_bounds' = tb
  /\ last' = Before("tick_handler")
  /\ UNCHANGED <<s_x, s_y, s_dx, s_dy, s_animation_timer, s_activation_time,
                 s_transition_frame, s_in_transition, pc, bounds, clock, timers>>

tick_handler == tick_handler_in(TextSizes)

\* Real time passes by one timer interval, unless a timer is due: the timer
\* service runs a callback at the time it was registered for.
Advance ==
  /\ pc = "loop"
  /\ clock < MaxClock
  /\ \A t \in timers : clock < t.due
  /\ clock' = clock + 1
  /\ last' = [LastNone EXCEPT !.op = "advance"]
  /\ UNCHANGED <<s_x, s_y, s_dx, s_dy, s_text_bounds, s_animation_timer,
                 s_activation_time, s_transition_frame, s_in_transition,
                 pc, bounds, timers>>

Next ==
  \/ window_load
  \/ animation_timer_callback
  \/ focus_handler
  \/ tap_handler
  \/ tick_handler
  \/ Advance

Spec == Init /\ [][Next]_vars

\* The same program on a platform whose text layout never measures a text
\* larger than the viewport.
window_load_fitting == window_load_in(FittingSizes)
tick_handler_fitting == tick_handler_in(FittingSizes)

NextFits ==
  \/ window_load_fitting
  \/ animation_timer_callback
  \/ focus_handler
  \/ tap_handler
  \/ tick_handler_fitting
  \/ Advance

SpecFits == Init /\ [][NextFits]_vars

\* ANIMATION_INTERVAL_MS intervals in one second of time(NULL)
TicksPerSecond == 1000 \div ANIMATION_INTERVAL_MS

\* The same program with a wearer whose taps and focus-regained events fall
\* in the last timer interval of a clock second only (and a text layout
\* that never measures a text larger than the viewport).
LateInSecond == clock % TicksPerSecond = TicksPerSecond - 1
tap_handler_late == LateInSecond /\ tap_handler
focus_handler_late == focus_handler /\ (last'.op = "focus" => LateInSecond)

NextLateWake ==
  \/ window_load_fitting
  \/ animation_timer_callback
  \/ focus_handler_late
  \/ tap_handler_late
  \/ tick_handler_fitting
  \/ Advance

SpecLateWake == Init /\ [][NextLateWake]_vars

\* The same program left alone: no tap and no focus-regained event, with a
\* text that fits the viewport.  The window is loaded by init, the timer service calls back a timer that is
\* due, and time passes.
focus_handler_lost == focus_handler /\ last'.op = "focus_lost"

NextIdle ==
  \/ window_load_fitting
  \/ animation_timer_callback
  \/ focus_handler_lost
  \/ tick_handler_fitting
  \/ Advance

SpecIdle ==
  /\ Init /\ [][NextIdle]_vars
  /\ WF_vars(window_load_fitting)
  /\ WF_vars(animation_timer_callback)
  /\ WF_vars(Advance)

\* The same program with a wearer who wakes the animation only while it is
\* slowing down or stopped.
SlowingOrStopped == s_in_transition \/ (pc = "loop" /\ s_animation_timer = NULL)
tap_handler_idle == SlowingOrStopped /\ tap_handler
focus_handler_idle == focus_handler /\ (last'.op = "focus" => SlowingOrStopped)

NextIdleWake ==
  \/ window_load
  \/ animation_timer_callback
  \/ focus_handler_idle
  \/ tap_handler_idle
  \/ tick_handler
  \/ Advance

SpecIdleWake == Init /\ [][NextIdleWake]_vars

(***************************************************************************)
(* Vocabulary of the properties.                                           *)
(***************************************************************************)
\* The text fits the viewport.
Fits == s_text_bounds.w <= bounds.w /\ s_text_bounds.h <= bounds.h

\* The text layer lies fully inside the viewport.
InView ==
  /\ 0 <= s_x /\ s_x <= bounds.w - s_text_bounds.w
  /\ 0 <= s_y /\ s_y <= bounds.h - s_text_bounds.h

\* The state right after a timer callback; the callback changes neither the
\* clock nor the activation time nor the text bounds.
AfterTick == last.op = "tick"
AfterActiveTick == AfterTick /\ last.branch = "active"
AfterTransitionTick == AfterTick /\ last.branch = "transition"
AfterReset == last.op \in {"tap", "focus"}
ElapsedSec == TimeNow(clock) - s_activation_time

\* The animation has stopped: the stopping branch cleared the handle.
Stopped == pc = "loop" /\ s_animation_timer = NULL
\* the timer callback that ran last set the transition flag
EnteredTransition == AfterTick /\ ~last.inTransition /\ s_in_transition
\* intervals since the tap or focus event that set s_activation_time, when
\* such events fall in the last interval of a second (SpecLateWake)
SinceLateWake ==
  clock - (TicksPerSecond * s_activation_time + TicksPerSecond - 1)

\* The boundary reflection as the specification words it: the coordinate and
\* the velocity an axis must have after advancing c by d.
ReflectedCoord(c, d, e, V) ==
  IF c + d <= 0 THEN 0 ELSE IF c + d + e >= V THEN V - e ELSE c + d
Reflects(c, d, e, V) == c + d <= 0 \/ c + d + e >= V

\* trunc(InitialSpeed * (1 - frame/TRANSITION_FRAMES)^2), in exact arithmetic.
ExactStep(frame) ==
  (InitialSpeed * (TRANSITION_FRAMES - frame) * (TRANSITION_FRAMES - frame))
    \div (TRANSITION_FRAMES * TRANSITION_FRAMES)

\* (1 - frame/TRANSITION_FRAMES)^2 <= 0.01, in exact arithmetic.
MultiplierAtMostHundredth(frame) ==
  100 * (TRANSITION_FRAMES - frame) * (TRANSITION_FRAMES - frame)
    <= TRANSITION_FRAMES * TRANSITION_FRAMES

(***************************************************************************)
(* C1.  After every tick that runs the active branch with a text that fits *)
(* the viewport, the text layer lies inside the viewport, whatever the     *)
(* position was before the tick.                                           *)
(***************************************************************************)
C1_ActiveTickInView == (AfterActiveTick /\ Fits) => InView

\* An active tick that started with the text sticking out on the right (the
\* text had grown) and brought it back inside.
C1_Witness ==
  /\ AfterActiveTick /\ Fits /\ InView
  /\ last.x + s_text_bounds.w > bounds.w

(***************************************************************************)
(* C2.  After every tick of any branch, with a text that fits the          *)
(* viewport, the text layer lies inside the viewport, also when the text   *)
(* bounds changed between two ticks.                                       *)
(***************************************************************************)
C2_EveryTickInView == (AfterTick /\ Fits) => InView

(***************************************************************************)
(* C3.  At most one timer is pending in every state, it is the one whose   *)
(* handle the program holds, and after each trigger that arms a timer      *)
(* (window load, tap, focus regained) the only pending timer is the one    *)
(* just registered.                                                        *)
(***************************************************************************)
C3_OnePendingTick ==
  /\ Cardinality(timers) <= 1
  /\ \A t \in timers : t.id = s_animation_timer
  /\ last.op \in {"window_load", "tap", "focus"} =>
       timers = {[id |-> s_animation_timer, due |-> clock + 1]}

\* A tap that found a timer pending.
C3_Witness ==
  /\ last.op = "tap" /\ last.pending # {}
  /\ Cardinality(timers) = 1

(***************************************************************************)
(* C4.  A tap or a focus-regained event leaves the animation active, the   *)
(* frame counter 0, the activation time equal to the current second and    *)
(* exactly one timer pending, the one the call registered; no timer that   *)
(* was pending before the call is left.                                    *)
(***************************************************************************)
C4_ResetToActive ==
  AfterReset =>
    /\ ~s_in_transition
    /\ s_transition_frame = 0
    /\ s_activation_time = TimeNow(clock)
    /\ s_animation_timer # NULL
    /\ timers = {[id |-> s_animation_timer, due |-> clock + 1]}
    /\ \A t \in timers : t.due > clock

\* A focus-regained event in the stopped state, after a whole transition.
C4_Witness ==
  /\ last.op = "focus" /\ last.timer = NULL
  /\ s_transition_frame = 0 /\ Cardinality(timers) = 1

(***************************************************************************)
(* C5.  A tick that finds the animation active enters the transition if    *)
(* and only if IDLE_START_SEC seconds or more have elapsed since the       *)
(* activation time; it then works on frame 0, so that the counter is 1     *)
(* when the tick returns.                                                  *)
(***************************************************************************)
C5_IdleStartsTransition ==
  (AfterTick /\ ~last.inTransition) =>
    IF ElapsedSec >= IDLE_START_SEC
    THEN /\ s_in_transition
         /\ last.branch = "transition"
         /\ last.frame = 0
         /\ s_transition_frame = 1
    ELSE /\ ~s_in_transition
         /\ last.branch = "active"

\* The tick that enters the transition exactly IDLE_START_SEC seconds after
\* a reset.
C5_Witness ==
  /\ AfterTick /\ ~last.inTransition /\ s_in_transition
  /\ ElapsedSec = IDLE_START_SEC /\ s_activation_time > 0

(***************************************************************************)
(* C6.  A tick of the transition at a frame whose speed multiplier         *)
(* (1 - frame/40)^2 is at most 0.01 leaves the position as it is, counts   *)
(* the frame and registers the next callback; the tick at frame 40 leaves  *)
(* no timer pending.                                                       *)
(***************************************************************************)
C6_SlowFramesAndStop ==
  /\ (AfterTick /\ last.inTransition /\ last.frame < TRANSITION_FRAMES
        /\ MultiplierAtMostHundredth(last.frame)) =>
       /\ s_x = last.x /\ s_y = last.y
       /\ s_transition_frame = last.frame + 1
       /\ timers = {[id |-> s_animation_timer, due |-> clock + 1]}
  /\ (AfterTick /\ last.inTransition /\ last.frame = TRANSITION_FRAMES) =>
       /\ timers = {}
       /\ s_animation_timer = NULL

\* The tick at frame 39, the last frame of the transition: the position is
\* the one before, the counter reaches 40 and a timer is pending.
C6_Witness ==
  /\ AfterTick /\ last.inTransition /\ last.frame = TRANSITION_FRAMES - 1
  /\ s_x = last.x /\ s_y = last.y
  /\ s_transition_frame = TRANSITION_FRAMES /\ timers # {}

(***************************************************************************)
(* C7.  From a stopped state, every step that is not a tap or a            *)
(* focus-regained event leaves the position and the velocity unchanged     *)
(* and no timer pending.                                                   *)
(***************************************************************************)
C7_StoppedStaysPut ==
  [][ (Stopped /\ last'.op \notin {"tap", "focus"}) =>
        /\ UNCHANGED <<s_x, s_y, s_dx, s_dy>>
        /\ timers' = {}
        /\ s_animation_timer' = NULL ]_vars

\* A minute change delivered while the animation is stopped.
C7_Witness ==
  /\ Stopped /\ last.op = "tick_handler" /\ last.timer = NULL
  /\ timers = {}

(***************************************************************************)
(* C8.  A tick of the transition that moves the text with a scaled         *)
(* velocity leaves each axis' velocity with its magnitude and, if the      *)
(* scaled step was reflected on that axis, with the opposite sign;         *)
(* without a reflection the velocity is the one before the tick.           *)
(***************************************************************************)
C8_SignPreserved ==
  (AfterTransitionTick /\ last.moved) =>
    /\ s_dx = IF Reflects(last.x, last.sdx, s_text_bounds.w, bounds.w)
              THEN -last.dx ELSE last.dx
    /\ s_dy = IF Reflects(last.y, last.sdy, s_text_bounds.h, bounds.h)
              THEN -last.dy ELSE last.dy

\* A step at half speed reflected on the x axis only.
C8_Witness ==
  /\ AfterTransitionTick /\ last.moved
  /\ Abs(last.sdx) < Abs(last.dx)
  /\ Reflects(last.x, last.sdx, s_text_bounds.w, bounds.w)
  /\ ~Reflects(last.y, last.sdy, s_text_bounds.h, bounds.h)
  /\ s_dx = -last.dx /\ s_dy = last.dy

(***************************************************************************)
(* C9.  A tick that moves the text leaves each axis, independently of the  *)
(* other, at 0 if the advanced coordinate is <= 0, else at V - e if it is  *)
(* >= V - e, else at the advanced coordinate; an active tick flips the     *)
(* axis' velocity in the first two cases and keeps it in the third.        *)
(***************************************************************************)
C9_BoundaryReflection ==
  /\ (AfterTick /\ last.moved) =>
       /\ s_x = ReflectedCoord(last.x, last.sdx, s_text_bounds.w, bounds.w)
       /\ s_y = ReflectedCoord(last.y, last.sdy, s_text_bounds.h, bounds.h)
  /\ AfterActiveTick =>
       /\ last.moved /\ last.sdx = last.dx /\ last.sdy = last.dy
       /\ s_dx = IF Reflects(last.x, last.dx, s_text_bounds.w, bounds.w)
                 THEN -last.dx ELSE last.dx
       /\ s_dy = IF Reflects(last.y, last.dy, s_text_bounds.h, bounds.h)
                 THEN -last.dy ELSE last.dy

\* From (0,0) with velocity (2,2) an active tick yields (2,2) and keeps the
\* velocity.
C9_Witness ==
  /\ AfterActiveTick
  /\ last.x = 0 /\ last.y = 0 /\ last.dx = 2 /\ last.dy = 2
  /\ s_x = 2 /\ s_y = 2 /\ s_dx = 2 /\ s_dy = 2

(***************************************************************************)
(* C10.  When the text is wider (higher) than the viewport, every tick     *)
(* that moves the text leaves its x (y) coordinate at 0.                   *)
(***************************************************************************)
C10_OversizePinnedAtZero ==
  (AfterTick /\ last.moved) =>
    /\ s_text_bounds.w > bounds.w => s_x = 0
    /\ s_text_bounds.h > bounds.h => s_y = 0

(***************************************************************************)
(* C11.  activate_animation is idempotent: a tap or focus-regained event   *)
(* that directly follows another one (no tick, no time in between) leaves  *)
(* the phase, the frame counter, the activation time, the position, the    *)
(* velocity and the pending timers as the first one left them.             *)
(***************************************************************************)
C11_ResetIdempotent ==
  [][ (AfterReset /\ last'.op \in {"tap", "focus"}) =>
        /\ UNCHANGED <<s_in_transition, s_transition_frame, s_activation_time,
                       s_x, s_y, s_dx, s_dy>>
        /\ Cardinality(timers') = 1 /\ Cardinality(timers) = 1
        /\ {t.due : t \in timers'} = {t.due : t \in timers} ]_vars

\* The state after the second of two resets in a row.
C11_Witness ==
  /\ AfterReset /\ last.again
  /\ ~s_in_transition /\ s_transition_frame = 0 /\ Cardinality(timers) = 1

(***************************************************************************)
(* C12.  Between callbacks each velocity component has the initial         *)
(* magnitude: |s_dx| = 2 and |s_dy| = 2 in every state.                    *)
(***************************************************************************)
C12_VelocityMagnitude ==
  Abs(s_dx) = InitialSpeed /\ Abs(s_dy) = InitialSpeed

\* After a tick of the transition that moved the text at half speed.
C12_Witness ==
  /\ AfterTransitionTick /\ last.moved
  /\ Abs(last.sdx) = 1 /\ Abs(last.sdy) = 1
  /\ Abs(s_dx) = InitialSpeed /\ Abs(s_dy) = InitialSpeed

(***************************************************************************)
(* C13.  As claimed: in every state in which the transition flag is false  *)
(* the frame counter is 0.                                                 *)
(***************************************************************************)
C13_ActiveFrameZero == ~s_in_transition => s_transition_frame = 0

(***************************************************************************)
(* C13, amended.  In every state in which the transition flag is false the *)
(* frame counter is 0, unless the animation has stopped: the stopping      *)
(* branch clears the flag and leaves the counter at TRANSITION_FRAMES,     *)
(* until the next tap or focus-regained event resets it.                   *)
(***************************************************************************)
C13_ActiveFrameZeroUnlessStopped ==
  ~s_in_transition =>
    s_transition_frame = IF Stopped THEN TRANSITION_FRAMES ELSE 0

\* The stopped state, some time after the stopping tick.
C13_Witness ==
  /\ Stopped /\ ~s_in_transition /\ s_transition_frame = TRANSITION_FRAMES
  /\ last.op = "advance"

(***************************************************************************)
(* C14.  Once the window is loaded only the timer callback changes the     *)
(* position and the velocity, and it moves the text by one step at most; a *)
(* tap or focus event leaves them alone; a minute change changes the text  *)
(* bounds only; a focus-lost event changes nothing.                        *)
(***************************************************************************)
C14_OnlyTickMoves ==
  [][ /\ last'.op \notin {"tick", "window_load"} =>
           UNCHANGED <<s_x, s_y, s_dx, s_dy>>
      /\ last'.op = "tick" =>
           /\ Abs(last'.sdx) <= Abs(s_dx) /\ Abs(last'.sdy) <= Abs(s_dy)
           /\ s_x' = IF last'.moved
                     THEN ReflectedCoord(s_x, last'.sdx, s_text_bounds.w, bounds.w)
                     ELSE s_x
           /\ s_y' = IF last'.moved
                     THEN ReflectedCoord(s_y, last'.sdy, s_text_bounds.h, bounds.h)
                     ELSE s_y
      /\ last'.op = "tick_handler" =>
           UNCHANGED <<s_animation_timer, s_activation_time, s_transition_frame,
                       s_in_transition, timers, clock>>
      /\ last'.op = "focus_lost" =>
           UNCHANGED <<s_text_bounds, s_animation_timer, s_activation_time,
                       s_transition_frame, s_in_transition, timers, clock>>
    ]_vars

\* A minute change that made the text stick out of the viewport and left the
\* position alone.
C14_Witness ==
  /\ last.op = "tick_handler" /\ Fits /\ ~InView
  /\ s_x = last.x /\ s_y = last.y /\ s_dx = last.dx /\ s_dy = last.dy

(***************************************************************************)
(* C15.  The transition flag is set only by a timer callback that finds    *)
(* IDLE_START_SEC seconds or more elapsed, and cleared only by the timer   *)
(* callback at frame TRANSITION_FRAMES or by a tap or focus-regained       *)
(* event.                                                                  *)
(***************************************************************************)
C15_TransitionEntryAndExit ==
  [][ /\ (~s_in_transition /\ s_in_transition') =>
           /\ last'.op = "tick"
           /\ TimeNow(clock) - s_activation_time >= IDLE_START_SEC
      /\ (s_in_transition /\ ~s_in_transition') =>
           \/ last'.op \in {"tap", "focus"}
           \/ last'.op = "tick" /\ s_transition_frame = TRANSITION_FRAMES
    ]_vars

\* The stopping tick: the flag was set, the counter at 40, the flag is clear.
C15_Witness ==
  /\ AfterTick /\ last.inTransition /\ ~s_in_transition
  /\ last.frame = TRANSITION_FRAMES /\ last.branch = "stop"

(***************************************************************************)
(* C16.  As claimed: the transition never starts before IDLE_START_SEC     *)
(* seconds (5000 ms) have passed since the last tap or focus-regained      *)
(* event, whatever the offset of that event within its clock second.       *)
(* Stated for events in the last interval of a second.                     *)
(***************************************************************************)
C16_FiveSecondsSinceWake ==
  (EnteredTransition /\ s_activation_time >= 1) =>
    SinceLateWake * ANIMATION_INTERVAL_MS >= IDLE_START_SEC * 1000

(***************************************************************************)
(* C16, amended.  A tap or focus-regained event stamps the activation with *)
(* the whole second it falls in, and the transition never starts before    *)
(* IDLE_START_SEC seconds have passed since the START of that second: for  *)
(* an event in the last interval of a second that is 5000 - 950 = 4050 ms  *)
(* after the event itself.                                                 *)
(***************************************************************************)
C16_FiveSecondsSinceWakeSecond ==
  /\ AfterReset => s_activation_time = TimeNow(clock)
  /\ EnteredTransition =>
       clock * ANIMATION_INTERVAL_MS >= (s_activation_time + IDLE_START_SEC) * 1000
  /\ (EnteredTransition /\ s_activation_time >= 1) =>
       SinceLateWake * ANIMATION_INTERVAL_MS
         >= IDLE_START_SEC * 1000 - (1000 - ANIMATION_INTERVAL_MS)

\* The transition starts 4050 ms after a tap at 950 ms past the second.
C16_Witness ==
  /\ EnteredTransition /\ s_activation_time >= 1
  /\ SinceLateWake * ANIMATION_INTERVAL_MS = 4050

(***************************************************************************)
(* C17.  Left alone (no tap, no focus-regained event) the animation stops  *)
(* and stays stopped.  The frame counter is always in 0..TRANSITION_FRAMES;*)
(* the callback that starts the transition works on frame 0, every         *)
(* callback of the transition works on the frame the counter shows, adds   *)
(* one to it and registers the next callback; the callback that finds the  *)
(* counter at TRANSITION_FRAMES registers none.                            *)
(***************************************************************************)
C17_EventuallyStops ==
  /\ [](s_transition_frame \in 0..TRANSITION_FRAMES)
  /\ [][ last'.op = "tick" =>
           /\ last'.branch = "transition" =>
                /\ last'.frame = IF s_in_transition THEN s_transition_frame ELSE 0
                /\ last'.frame < TRANSITION_FRAMES
                /\ s_transition_frame' = last'.frame + 1
                /\ s_in_transition'
                /\ Cardinality(timers') = 1
           /\ last'.branch = "stop" =>
                /\ s_in_transition /\ s_transition_frame = TRANSITION_FRAMES
                /\ timers' = {} /\ s_animation_timer' = NULL
     ]_vars
  /\ <>[]Stopped

\* Stopped by the callback that found the counter at TRANSITION_FRAMES, two
\* seconds after the idle threshold.
C17_Witness ==
  /\ Stopped /\ AfterTick /\ last.branch = "stop"
  /\ s_transition_frame = TRANSITION_FRAMES
  /\ clock = (IDLE_START_SEC + TRANSITION_DURATION_SEC) * TicksPerSecond

(***************************************************************************)
(* C18.  After a tap or focus-regained event that found the animation      *)
(* slowing down or stopped, every timer callback that finds less than      *)
(* IDLE_START_SEC seconds elapsed takes the active branch: the flag stays  *)
(* clear and the counter 0, each axis is advanced by the full velocity (of *)
(* magnitude 2) and reflected, and the next callback is registered.        *)
(***************************************************************************)
C18_ActiveAfterWake ==
  (AfterTick /\ ElapsedSec < IDLE_START_SEC) =>
    /\ last.branch = "active" /\ ~last.inTransition
    /\ ~s_in_transition /\ s_transition_frame = 0
    /\ last.moved /\ last.sdx = last.dx /\ last.sdy = last.dy
    /\ Abs(last.dx) = InitialSpeed /\ Abs(last.dy) = InitialSpeed
    /\ s_x = ReflectedCoord(last.x, last.dx, s_text_bounds.w, bounds.w)
    /\ s_y = ReflectedCoord(last.y, last.dy, s_text_bounds.h, bounds.h)
    /\ Abs(s_dx) = InitialSpeed /\ Abs(s_dy) = InitialSpeed
    /\ Cardinality(timers) = 1 /\ s_animation_timer # NULL
    /\ \A t \in timers : t.id = s_animation_timer /\ t.due = clock + 1

\* An active tick after a wake-up: the activation time is not that of
\* window_load, so the animation was woken, and then from the transition or
\* the stopped state.
C18_Witness ==
  /\ AfterActiveTick /\ ElapsedSec < IDLE_START_SEC
  /\ s_activation_time >= IDLE_START_SEC
  /\ last.moved /\ Abs(s_x - last.x) = InitialSpeed

(***************************************************************************)
(* C19.  A timer callback of the transition moves each axis by             *)
(* trunc(2 * ((40 - frame) / 40)^2) in the direction of the velocity: by 2 *)
(* at frame 0, by 1 at frames 1..11 and by 0 at frames 12..39; the next    *)
(* frame's step is never larger; from frame 12 on the position and the     *)
(* velocity stay as they are.                                              *)
(***************************************************************************)
C19_StepMagnitudes ==
  AfterTransitionTick =>
    LET f == last.frame
        m == ExactStep(f)
    IN  /\ m = (IF f = 0 THEN 2 ELSE IF f <= 11 THEN 1 ELSE 0)
        /\ last.moved = (m # 0)
        /\ last.sdx = (IF last.dx < 0 THEN -m ELSE m)
        /\ last.sdy = (IF last.dy < 0 THEN -m ELSE m)
        /\ f < TRANSITION_FRAMES - 1 =>
             /\ Abs(Scaled(last.dx, f + 1)) <= m
             /\ Abs(Scaled(last.dy, f + 1)) <= m
        /\ f >= 12 =>
             /\ s_x = last.x /\ s_y = last.y
             /\ s_dx = last.dx /\ s_dy = last.dy

\* Frame 11, the last one that moves, with a negative and a positive
\* velocity component.
C19_Witness ==
  /\ AfterTransitionTick /\ last.frame = 11 /\ last.moved
  /\ last.dx = -InitialSpeed /\ last.sdx = -1
  /\ last.dy = InitialSpeed /\ last.sdy = 1

(***************************************************************************)
(* C20.  Once the window is loaded, no timer is pending only when the      *)
(* transition has run to its end (counter at TRANSITION_FRAMES, flag       *)
(* clear, handle NULL); while the flag is set or the counter is below      *)
(* TRANSITION_FRAMES exactly one timer is pending, due now or at the next  *)
(* interval.  A tap or focus-regained event in the stopped state registers *)
(* a timer; a pending timer goes away only when its callback runs or when  *)
(* another tap or focus-regained event replaces it; and time does not pass *)
(* a timer that is due.                                                    *)
(***************************************************************************)
C20_PendingUnlessStopped ==
  /\ [](pc = "loop" =>
          /\ timers = {} =>
               /\ s_transition_frame = TRANSITION_FRAMES
               /\ ~s_in_transition /\ s_animation_timer = NULL
          /\ (s_in_transition \/ s_transition_frame < TRANSITION_FRAMES) =>
               /\ Cardinality(timers) = 1
               /\ \A t \in timers :
                    t.id = s_animation_timer /\ t.due <= clock + 1)
  /\ [][ /\ (Stopped /\ last'.op \in {"tap", "focus"}) =>
              timers' = {[id |-> s_animation_timer', due |-> clock + 1]}
         /\ (timers # {} /\ timers' # timers) =>
              \/ last'.op \in {"tap", "focus"} /\ timers' # {}
              \/ last'.op = "tick" /\ \A t \in timers : t.due <= clock
         /\ clock' # clock => \A t \in timers' : clock' <= t.due
     ]_vars

\* Woken by a tap in the stopped state.
C20_Witness ==
  /\ last.op = "tap" /\ last.timer = NULL /\ last.pending = {}
  /\ Cardinality(timers) = 1 /\ s_transition_frame = 0 /\ ~s_in_transition

====
